---------------------------- MODULE Spec2Model ----------------------------
(***************************************************************************)
(* A model of generate_timesheet.py: the time conversions, the duration    *)
(* arithmetic on decimal.Decimal, the title consolidation, the row         *)
(* builder loop, the template substitution and the main pipeline.          *)
(*                                                                         *)
(* Text is a sequence of one-character strings.  A Decimal is a record     *)
(* [sign, coef, exp] as in Decimal.as_tuple(): coef is the sequence of the *)
(* coefficient's digits, most significant first, and the value is          *)
(* (-1)^sign * coef * 10^exp.  Arithmetic on coefficients is done digit by *)
(* digit, so the 28 digit precision of the default context is kept.        *)
(***************************************************************************)
EXTENDS Integers, Sequences, FiniteSets, TLC

VARIABLES
    raw_start,      \* hours_from_span: first argument
    raw_end,        \* hours_from_span: second argument
    span_pc,        \* hours_from_span: "idle", "call", "done" or "raised"
    span_ret,       \* hours_from_span: the value returned
    disp_value,     \* to_display_time: the argument
    disp_pc,        \* to_display_time: "idle", "call" or "done"
    disp_ret,       \* to_display_time: the value returned
    single,         \* build_title_payload: first argument
    multiple,       \* build_title_payload: second argument
    title_pc,       \* build_title_payload: "idle", "call" or "done"
    title_ret,      \* build_title_payload: the pair returned
    rows_pc,        \* build_rows: "idle", "for_entry", "for_shift", "done" or "raised"
    index,          \* build_rows: the index of the day entry at hand
    entry,          \* build_rows: the day entry at hand
    shifts,         \* build_rows: the shifts iterated for it
    shift_index,    \* build_rows: the number of them already processed
    start_entries,  \* build_rows: the start fragments of the day
    end_entries,    \* build_rows: the end fragments of the day
    day_total,      \* build_rows: the day's hours so far
    total,          \* build_rows: the week's hours so far
    rows,           \* build_rows: the rows built
    rows_ret,       \* build_rows: the pair returned
    hours_values,   \* history: hours_value of each shift processed for the day
    days_done,      \* history: per finished day, its entry, hours and totals
    shifts_read,    \* history: the number of shifts read in all
    template,       \* render: the text of the template
    data,           \* render: the timesheet record
    render_pc,      \* render: "idle", "call", "payload", "substitute", "done" or "raised"
    render_rows,    \* render: rows and total_hours
    payload,        \* render: the payload mapping
    render_ret,     \* render: the text returned
    main_pc,        \* main: "idle", "load", "render", "rendering", "open", "write", "done" or "failed"
    data_file,      \* main: the file at the data path
    template_file,  \* main: the file at the template path
    output_file,    \* main: the file at the output path
    main_data,      \* main: data
    main_html,      \* main: html
    output_before,  \* history: the file at the output path when main started
    output_opened   \* history: whether main has opened the output path

spanVars == <<raw_start, raw_end, span_pc, span_ret>>
dispVars == <<disp_value, disp_pc, disp_ret>>

titleVars == <<single, multiple, title_pc, title_ret>>

rowsVars == <<rows_pc, index, entry, shifts, shift_index, start_entries, end_entries,
              day_total, total, rows, rows_ret, hours_values, days_done, shifts_read>>

renderVars == <<template, data, render_pc, render_rows, payload, render_ret>>

mainVars == <<main_pc, data_file, template_file, output_file, main_data, main_html,
              output_before, output_opened>>

vars == <<spanVars, dispVars, titleVars, rowsVars, renderVars, mainVars>>

\* Python's None, and the outcome of a call that raised
None == [kind |-> "None"]
Raised == [kind |-> "Raised"]

\* A Python int, str and list
Int_(n) == [kind |-> "int", val |-> n]
Str(t) == [kind |-> "str", text |-> t]
List(items) == [kind |-> "list", items |-> items]

\* The truth value of None, a str or a list
Truthy(v) ==
    IF v.kind = "str" THEN v.text # <<>>
    ELSE IF v.kind = "list" THEN v.items # <<>>
    ELSE FALSE

\* str(v) of None or a str
StrOf(v) == IF v.kind = "str" THEN v.text ELSE <<"N", "o", "n", "e">>

-----------------------------------------------------------------------------
(* Text helpers *)

DigitChars == <<"0", "1", "2", "3", "4", "5", "6", "7", "8", "9">>

IsDigit(c) == \E i \in 1..10 : DigitChars[i] = c

DigitValue(c) == (CHOOSE i \in 1..10 : DigitChars[i] = c) - 1

DigitChar(d) == DigitChars[d + 1]

IsSpace(c) == c = " "

Reverse(s) == [i \in 1..Len(s) |-> s[Len(s) + 1 - i]]

RECURSIVE LStrip(_)
LStrip(s) == IF s # <<>> /\ IsSpace(Head(s)) THEN LStrip(Tail(s)) ELSE s

\* str.strip()
Strip(s) == Reverse(LStrip(Reverse(LStrip(s))))

\* str.split(sep) for a one-character separator
RECURSIVE SplitAcc(_, _, _)
SplitAcc(s, sep, cur) ==
    IF s = <<>> THEN <<cur>>
    ELSE IF Head(s) = sep THEN <<cur>> \o SplitAcc(Tail(s), sep, <<>>)
    ELSE SplitAcc(Tail(s), sep, Append(cur, Head(s)))

Split(s, sep) == SplitAcc(s, sep, <<>>)

RECURSIVE DigitsValue(_)
DigitsValue(ds) ==
    IF ds = <<>> THEN 0
    ELSE DigitsValue(SubSeq(ds, 1, Len(ds) - 1)) * 10 + DigitValue(ds[Len(ds)])

AllDigits(s) == s # <<>> /\ \A i \in 1..Len(s) : IsDigit(s[i])

ValueError == [kind |-> "ValueError"]

\* int(text): surrounding whitespace and one sign are accepted; anything else
\* raises ValueError.  (The texts of the model hold no underscore, which
\* int() also accepts between digits.)
IntOf(text) ==
    LET t == Strip(text)
        signed == t # <<>> /\ Head(t) \in {"+", "-"}
        body == IF signed THEN Tail(t) ELSE t
    IN  IF ~AllDigits(body) THEN ValueError
        ELSE IF signed /\ Head(t) = "-" THEN Int_(0 - DigitsValue(body))
        ELSE Int_(DigitsValue(body))

-----------------------------------------------------------------------------
(* Digit arithmetic for Decimal coefficients *)

\* The precision of decimal's default context.
Precision == 28

Zeros(n) == [i \in 1..n |-> 0]

RECURSIVE StripZeros(_)
StripZeros(ds) ==
    IF Len(ds) > 1 /\ Head(ds) = 0 THEN StripZeros(Tail(ds)) ELSE ds

RECURSIVE NatDigits(_)
NatDigits(n) == IF n < 10 THEN <<n>> ELSE Append(NatDigits(n \div 10), n % 10)

IsZeroDigits(ds) == \A i \in 1..Len(ds) : ds[i] = 0

PadLeft(ds, n) == Zeros(n - Len(ds)) \o ds

\* little-endian addition of equal-length digit sequences
RECURSIVE AddRev(_, _, _)
AddRev(a, b, c) ==
    IF a = <<>> THEN (IF c = 0 THEN <<>> ELSE <<c>>)
    ELSE LET s == Head(a) + Head(b) + c
         IN  <<s % 10>> \o AddRev(Tail(a), Tail(b), s \div 10)

\* little-endian subtraction a - b of equal-length digit sequences, a >= b
RECURSIVE SubRev(_, _, _)
SubRev(a, b, c) ==
    IF a = <<>> THEN <<>>
    ELSE LET s == Head(a) - Head(b) - c
         IN  <<(s + 10) % 10>> \o SubRev(Tail(a), Tail(b), IF s < 0 THEN 1 ELSE 0)

\* little-endian product of a digit sequence and a small natural
RECURSIVE MulRev(_, _, _)
MulRev(a, k, c) ==
    IF a = <<>> THEN (IF c = 0 THEN <<>> ELSE Reverse(NatDigits(c)))
    ELSE LET s == Head(a) * k + c
         IN  <<s % 10>> \o MulRev(Tail(a), k, s \div 10)

AddDigits(a, b) ==
    LET n == IF Len(a) > Len(b) THEN Len(a) ELSE Len(b)
    IN  StripZeros(Reverse(AddRev(Reverse(PadLeft(a, n)), Reverse(PadLeft(b, n)), 0)))

SubDigits(a, b) ==
    LET n == IF Len(a) > Len(b) THEN Len(a) ELSE Len(b)
    IN  StripZeros(Reverse(SubRev(Reverse(PadLeft(a, n)), Reverse(PadLeft(b, n)), 0)))

MulDigits(a, k) == StripZeros(Reverse(MulRev(Reverse(a), k, 0)))

\* -1, 0 or 1 as a < b, a = b or a > b (as naturals)
RECURSIVE CmpSame(_, _)
CmpSame(a, b) ==
    IF a = <<>> THEN 0
    ELSE IF Head(a) < Head(b) THEN -1
    ELSE IF Head(a) > Head(b) THEN 1
    ELSE CmpSame(Tail(a), Tail(b))

CmpDigits(a, b) ==
    LET n == IF Len(a) > Len(b) THEN Len(a) ELSE Len(b)
    IN  CmpSame(PadLeft(a, n), PadLeft(b, n))

\* divmod of a digit sequence by a small positive natural
RECURSIVE DivSmall(_, _, _, _)
DivSmall(ds, d, rem, acc) ==
    IF ds = <<>> THEN [q |-> StripZeros(acc), r |-> rem]
    ELSE LET cur == rem * 10 + Head(ds)
         IN  DivSmall(Tail(ds), d, cur % d, Append(acc, cur \div d))

-----------------------------------------------------------------------------
(* decimal.Decimal *)

Dec(sign, coef, exp) == [kind |-> "Decimal", sign |-> sign, coef |-> coef, exp |-> exp]

\* Decimal(n) for an int n
DecFromInt(n) == IF n < 0 THEN Dec(1, NatDigits(0 - n), 0) ELSE Dec(0, NatDigits(n), 0)

\* Decimal.__bool__
DecNonZero(x) == ~IsZeroDigits(x.coef)

\* ROUND_HALF_EVEN of the digits ds after its first keep digits: the kept
\* digits, incremented when the dropped part rounds up.
RoundHalfEven(ds, keep) ==
    LET kept == IF keep = 0 THEN <<0>> ELSE SubSeq(ds, 1, keep)
        first == ds[keep + 1]
        rest == SubSeq(ds, keep + 2, Len(ds))
        up == \/ first > 5
              \/ first = 5 /\ ~IsZeroDigits(rest)
              \/ first = 5 /\ IsZeroDigits(rest) /\ kept[Len(kept)] % 2 = 1
    IN  IF up THEN AddDigits(kept, <<1>>) ELSE kept

\* Decimal._fix: round the result of an operation to the context precision
Fix(x) ==
    LET n == Len(x.coef)
    IN  IF n <= Precision THEN x
        ELSE LET c == RoundHalfEven(x.coef, Precision)
                 e == x.exp + (n - Precision)
             IN  IF Len(c) > Precision
                 THEN Dec(x.sign, SubSeq(c, 1, Precision), e + 1)
                 ELSE Dec(x.sign, PadLeft(c, Precision), e)

\* The coefficient of x written at exponent e <= x.exp
CoefAt(x, e) == IF IsZeroDigits(x.coef) THEN <<0>> ELSE x.coef \o Zeros(x.exp - e)

MinInt(a, b) == IF a < b THEN a ELSE b

\* Decimal.__add__ of finite operands: the exact sum at the smaller exponent,
\* then rounded to the context precision.
DecAdd(x, y) ==
    LET e == MinInt(x.exp, y.exp)
        a == CoefAt(x, e)
        b == CoefAt(y, e)
        c == CmpDigits(a, b)
    IN  IF x.sign = y.sign THEN Fix(Dec(x.sign, AddDigits(a, b), e))
        ELSE IF c = 0 THEN Fix(Dec(0, <<0>>, e))
        ELSE IF c > 0 THEN Fix(Dec(x.sign, SubDigits(a, b), e))
        ELSE Fix(Dec(y.sign, SubDigits(b, a), e))

\* Decimal.__eq__ of finite operands: equality of the values
DecEq(x, y) ==
    LET e == MinInt(x.exp, y.exp)
        a == CoefAt(x, e)
        b == CoefAt(y, e)
    IN  CmpDigits(a, b) = 0 /\ (x.sign = y.sign \/ IsZeroDigits(a))

\* A quotient that came out exact is brought as close to the ideal exponent
\* as its trailing zeros allow.
RECURSIVE TowardIdeal(_, _, _)
TowardIdeal(coef, exp, ideal) ==
    IF exp < ideal /\ Len(coef) > 1 /\ coef[Len(coef)] = 0
    THEN TowardIdeal(SubSeq(coef, 1, Len(coef) - 1), exp + 1, ideal)
    ELSE Dec(0, coef, IF IsZeroDigits(coef) THEN ideal ELSE exp)

\* Decimal.__truediv__ of a non-negative integer-valued x by Decimal(d),
\* d a small positive int: the dividend is shifted so that the quotient has
\* one digit more than the precision, an inexact quotient ending in 0 or 5 is
\* bumped by one (the sticky digit), and the result is rounded by Fix.
DecDivInt(x, d) ==
    IF IsZeroDigits(x.coef) THEN Dec(x.sign, <<0>>, x.exp)
    ELSE LET shift == Len(NatDigits(d)) - Len(x.coef) + Precision + 1
             exp == x.exp - shift
             qr == DivSmall(x.coef \o Zeros(shift), d, 0, <<>>)
             last == qr.q[Len(qr.q)]
         IN  IF qr.r # 0
             THEN Fix(Dec(x.sign, IF last % 5 = 0 THEN AddDigits(qr.q, <<1>>) ELSE qr.q, exp))
             ELSE LET t == TowardIdeal(qr.q, exp, x.exp)
                  IN  Fix(Dec(x.sign, t.coef, t.exp))

-----------------------------------------------------------------------------
(* parse_decimal and format_hours *)

InvalidOperation == [kind |-> "InvalidOperation"]

\* Decimal(text) of a text in plain notation: spaces around, one sign, digits
\* with at most one point and at least one digit; anything else raises
\* InvalidOperation.  (The texts of the model hold no exponent, no underscore
\* and no name of an infinity or a NaN, which Decimal() also accepts.)
DecimalOf(text) ==
    LET t == Strip(text)
        signed == t # <<>> /\ Head(t) \in {"+", "-"}
        body == IF signed THEN Tail(t) ELSE t
        parts == Split(body, ".")
        int == parts[1]
        frac == IF Len(parts) = 2 THEN parts[2] ELSE <<>>
        digits == int \o frac
    IN  IF Len(parts) > 2 \/ ~AllDigits(digits) THEN InvalidOperation
        ELSE Dec(IF signed /\ Head(t) = "-" THEN 1 ELSE 0,
                 StripZeros([i \in 1..Len(digits) |-> DigitValue(digits[i])]),
                 0 - Len(frac))

\* parse_decimal: None for None and "", and for a text Decimal() rejects
ParseDecimal(value) ==
    IF value = None \/ value = Str(<<>>) THEN None
    ELSE LET d == DecimalOf(StrOf(value))
         IN  IF d = InvalidOperation THEN None ELSE d

\* Decimal._rescale(-2, ROUND_HALF_EVEN): the coefficient of x at exponent -2
RescaleToCents(x) ==
    IF IsZeroDigits(x.coef) THEN <<0>>
    ELSE IF x.exp >= -2 THEN x.coef \o Zeros(x.exp + 2)
    ELSE LET keep == Len(x.coef) + x.exp + 2
         IN  IF keep < 0 THEN <<0>> ELSE RoundHalfEven(x.coef, keep)

\* format(x, ".2f") of a Decimal: the sign, the integer digits, a point and
\* two fractional digits
FormatCents(x) ==
    LET c == RescaleToCents(x)
        padded == IF Len(c) < 3 THEN PadLeft(c, 3) ELSE c
        n == Len(padded)
    IN  (IF x.sign = 1 THEN <<"-">> ELSE <<>>)
        \o [i \in 1..(n - 2) |-> DigitChar(padded[i])]
        \o <<".">>
        \o <<DigitChar(padded[n - 1]), DigitChar(padded[n])>>

\* format_hours of None, a str or a Decimal
FormatHours(value) ==
    IF value = None \/ value = Str(<<>>) THEN <<>>
    ELSE IF value.kind = "Decimal" THEN FormatCents(value)
    ELSE LET d == DecimalOf(StrOf(value))
         IN  IF d = InvalidOperation THEN StrOf(value) ELSE FormatCents(d)

-----------------------------------------------------------------------------
(* hours_from_span *)

\* to_minutes: None for an empty value, for a value that does not split into
\* two parts at ":", and for a part int() rejects (the ValueError is caught).
ToMinutesUncaught(value) ==
    IF value = <<>> THEN None
    ELSE LET parts == Split(value, ":")
         IN  IF Len(parts) # 2 THEN None
             ELSE LET hours == IntOf(parts[1])
                      minutes == IntOf(parts[2])
                  IN  IF hours = ValueError \/ minutes = ValueError THEN Raised
                      ELSE Int_(hours.val * 60 + minutes.val)

ToMinutes(value) ==
    IF value = <<>> THEN None
    ELSE LET parts == Split(value, ":")
         IN  IF Len(parts) # 2 THEN None
             ELSE LET hours == IntOf(parts[1])
                      minutes == IntOf(parts[2])
                  IN  IF hours = ValueError \/ minutes = ValueError THEN None
                      ELSE Int_(hours.val * 60 + minutes.val)

ElapsedNoWrap(start_minutes, end_minutes) ==
    IF end_minutes - start_minutes > 0 THEN end_minutes - start_minutes ELSE 0

\* an end before the start is taken to be on the next day; the difference is
\* clamped at zero
Elapsed(start_minutes, end_minutes) ==
    LET e == IF end_minutes < start_minutes THEN end_minutes + 24 * 60 ELSE end_minutes
    IN  IF e - start_minutes > 0 THEN e - start_minutes ELSE 0

HoursFromSpan(start, end) ==
    LET start_minutes == ToMinutes(start)
        end_minutes == ToMinutes(end)
    IN  IF start_minutes = Raised \/ end_minutes = Raised THEN Raised
        ELSE IF start_minutes = None \/ end_minutes = None THEN DecFromInt(0)
        ELSE DecDivInt(DecFromInt(Elapsed(start_minutes.val, end_minutes.val)), 60)

-----------------------------------------------------------------------------
(* to_24h and to_display_time *)

LowerChars ==
    <<"a", "b", "c", "d", "e", "f", "g", "h", "i", "j", "k", "l", "m",
      "n", "o", "p", "q", "r", "s", "t", "u", "v", "w", "x", "y", "z">>

UpperChars ==
    <<"A", "B", "C", "D", "E", "F", "G", "H", "I", "J", "K", "L", "M",
      "N", "O", "P", "Q", "R", "S", "T", "U", "V", "W", "X", "Y", "Z">>

UpperChar(c) ==
    IF \E i \in 1..26 : LowerChars[i] = c
    THEN UpperChars[CHOOSE i \in 1..26 : LowerChars[i] = c]
    ELSE c

\* str.upper()
Upper(s) == [i \in 1..Len(s) |-> UpperChar(s[i])]

\* str.replace(" ", "")
RECURSIVE RemoveSpaces(_)
RemoveSpaces(s) ==
    IF s = <<>> THEN <<>>
    ELSE IF Head(s) = " " THEN RemoveSpaces(Tail(s))
    ELSE <<Head(s)>> \o RemoveSpaces(Tail(s))

\* The leading digits of s, at most two
LeadDigits(s) ==
    IF Len(s) >= 2 /\ IsDigit(s[1]) /\ IsDigit(s[2]) THEN SubSeq(s, 1, 2)
    ELSE IF Len(s) >= 1 /\ IsDigit(s[1]) THEN SubSeq(s, 1, 1)
    ELSE <<>>

\* The minute field of strptime, [0-5]\d|\d: two digits when the first is at
\* most 5, else one digit
MinuteDigits(s) ==
    IF Len(s) >= 2 /\ IsDigit(s[1]) /\ IsDigit(s[2]) /\ DigitValue(s[1]) <= 5
    THEN SubSeq(s, 1, 2)
    ELSE IF Len(s) >= 1 /\ IsDigit(s[1]) THEN SubSeq(s, 1, 1)
    ELSE <<>>

\* datetime.strptime(text, "%H:%M") when twelve is FALSE and
\* datetime.strptime(text, "%I:%M%p") when it is TRUE: the hour and minute
\* parsed, or ValueError.  The hour field is one or two digits up to the
\* colon (0..23, or 1..12 before AM or PM), the minute field one or two
\* digits (0..59), and nothing may remain.
Strptime(text, twelve) ==
    LET hd == LeadDigits(text)
        afterHour == SubSeq(text, Len(hd) + 1, Len(text))
        md == IF afterHour # <<>> THEN MinuteDigits(Tail(afterHour)) ELSE <<>>
        rest == SubSeq(afterHour, Len(md) + 2, Len(afterHour))
        h == DigitsValue(hd)
        m == DigitsValue(md)
    IN  IF hd = <<>> \/ afterHour = <<>> \/ Head(afterHour) # ":" \/ md = <<>>
        THEN ValueError
        ELSE IF ~twelve
        THEN IF h <= 23 /\ rest = <<>> THEN [kind |-> "datetime", hour |-> h, minute |-> m]
             ELSE ValueError
        ELSE IF h >= 1 /\ h <= 12 /\ Upper(rest) \in {<<"A", "M">>, <<"P", "M">>}
        THEN [kind |-> "datetime",
              hour |-> IF Upper(rest) = <<"A", "M">>
                       THEN (IF h = 12 THEN 0 ELSE h)
                       ELSE (IF h = 12 THEN 12 ELSE h + 12),
              minute |-> m]
        ELSE ValueError

TwoDigits(n) == <<DigitChar(n \div 10), DigitChar(n % 10)>>

\* strftime("%H:%M")
Strftime24(t) == TwoDigits(t.hour) \o <<":">> \o TwoDigits(t.minute)

Strftime12NoTwelve(t) ==
    TwoDigits(t.hour % 12) \o <<":">> \o TwoDigits(t.minute)
        \o (IF t.hour < 12 THEN <<"A", "M">> ELSE <<"P", "M">>)

\* strftime("%I:%M%p"): the hour of the 12-hour clock as two digits
Strftime12(t) ==
    LET h == IF t.hour % 12 = 0 THEN 12 ELSE t.hour % 12
    IN  TwoDigits(h) \o <<":">> \o TwoDigits(t.minute)
        \o (IF t.hour < 12 THEN <<"A", "M">> ELSE <<"P", "M">>)

To24h(value) ==
    IF value = <<>> THEN <<>>
    ELSE LET cleaned == RemoveSpaces(Upper(Strip(value)))
             first == Strptime(cleaned, TRUE)
             second == Strptime(cleaned, FALSE)
         IN  IF first # ValueError THEN Strftime24(first)
             ELSE IF second # ValueError THEN Strftime24(second)
             ELSE <<>>

ToDisplayTime(value) ==
    IF value = <<>> THEN <<"-", "-">>
    ELSE LET parsed == Strptime(value, FALSE)
         IN  IF parsed # ValueError THEN Strftime12(parsed) ELSE value

-----------------------------------------------------------------------------
(* html.escape and build_title_payload *)

EscapeChar(c) ==
    IF c = "&" THEN <<"&", "a", "m", "p", ";">>
    ELSE IF c = "<" THEN <<"&", "l", "t", ";">>
    ELSE IF c = ">" THEN <<"&", "g", "t", ";">>
    ELSE IF c = "\"" THEN <<"&", "q", "u", "o", "t", ";">>
    ELSE IF c = "'" THEN <<"&", "#", "x", "2", "7", ";">>
    ELSE <<c>>

\* html.escape(text)
RECURSIVE Escape(_)
Escape(text) == IF text = <<>> THEN <<>> ELSE EscapeChar(Head(text)) \o Escape(Tail(text))

\* sep.join(texts)
RECURSIVE Join(_, _)
Join(texts, sep) ==
    IF texts = <<>> THEN <<>>
    ELSE IF Len(texts) = 1 THEN texts[1]
    ELSE texts[1] \o sep \o Join(Tail(texts), sep)

InSeq(x, seq) == \E i \in 1..Len(seq) : seq[i] = x

\* normalize: the stripped texts of the values, without the empty ones and
\* without those already collected
RECURSIVE Normalize(_, _)
Normalize(values, normalized) ==
    IF values = <<>> THEN normalized
    ELSE LET text == Strip(StrOf(Head(values)))
         IN  Normalize(Tail(values),
                 IF text # <<>> /\ ~InSeq(text, normalized)
                 THEN Append(normalized, text) ELSE normalized)

BuildTitlePayload(single_, multiple_) ==
    LET collected == IF Truthy(multiple_)
                     THEN (IF multiple_.kind = "list" THEN multiple_.items ELSE <<multiple_>>)
                     ELSE <<>>
        fromList == Normalize(collected, <<>>)
        titles == IF fromList = <<>>
                  THEN (IF single_.kind = "list" THEN Normalize(single_.items, <<>>)
                        ELSE Normalize(<<single_>>, <<>>))
                  ELSE fromList
    IN  IF titles = <<>> THEN [display |-> <<"-", "-">>, values |-> <<>>]
        ELSE [display |-> Join([i \in 1..Len(titles) |-> Escape(titles[i])], <<"<", "b", "r", ">">>),
              values |-> Join(titles, <<"|">>)]

-----------------------------------------------------------------------------
(* build_rows *)

\* A shift is a record of its "start", "end" and "hours" values, None for a
\* key that is absent; a day entry is a record of its "day" and "shifts".

\* dict.get(key, ""), then str()
TextOf(v) == IF v = None THEN <<>> ELSE StrOf(v)

ShiftsOrNothing(entry_) == IF Truthy(entry_.shifts) THEN entry_.shifts.items ELSE <<>>

\* The shifts iterated for a day entry: its own, or one empty shift when it
\* has none
EmptyShift == [start |-> None, end |-> None, hours |-> None]

ShiftsOf(entry_) == IF Truthy(entry_.shifts) THEN entry_.shifts.items ELSE <<EmptyShift>>

HoursValueZeroUnlessParsed(parsed, raw_start_, raw_end_) ==
    IF parsed = None THEN DecFromInt(0) ELSE parsed

HoursValueSpanWhenFalsy(parsed, raw_start_, raw_end_) ==
    IF parsed = None \/ (parsed # Raised /\ ~DecNonZero(parsed))
    THEN HoursFromSpan(raw_start_, raw_end_) ELSE parsed

\* hours_value: the parsed "hours" of the shift, or the span when there is none
HoursValue(parsed, raw_start_, raw_end_) ==
    IF parsed = None THEN HoursFromSpan(raw_start_, raw_end_) ELSE parsed

\* The start or end fragment of a shift
Fragment(side, index_, shift_index_, raw, display) ==
    [side |-> side, day_index |-> index_, shift_index |-> shift_index_,
     raw_value |-> raw, display |-> display, input_value |-> raw,
     remove_button |-> side = "start"]

\* One pass of the loop over the shifts, from the state st of the day
ShiftStep(st, index_, shift) ==
    LET raw_start_ == To24h(TextOf(shift.start))
        raw_end_ == To24h(TextOf(shift.end))
        display_start == Escape(ToDisplayTime(raw_start_))
        display_end == Escape(ToDisplayTime(raw_end_))
        hours_value == HoursValue(ParseDecimal(shift.hours), raw_start_, raw_end_)
        n == Len(st.start_entries)
    IN  IF hours_value = Raised THEN Raised
        ELSE [day_total |-> DecAdd(st.day_total, hours_value),
              start_entries |-> Append(st.start_entries,
                                   Fragment("start", index_, n, raw_start_, display_start)),
              end_entries |-> Append(st.end_entries,
                                   Fragment("end", index_, n, raw_end_, display_end)),
              hours_value |-> hours_value]

DayStart == [day_total |-> DecFromInt(0), start_entries |-> <<>>, end_entries |-> <<>>]

WeekTotalOverwritten(total_, day_total_) == day_total_

\* total += day_total
WeekTotal(total_, day_total_) == DecAdd(total_, day_total_)

\* The hours cell of a day
HoursDisplay(day_total_) ==
    IF DecNonZero(day_total_) THEN FormatHours(day_total_) ELSE <<"0", ".", "0", "0">>

\* The row of a day
Row(index_, entry_, st) ==
    [day |-> Escape(TextOf(entry_.day)), date |-> Escape(TextOf(entry_.date)),
     day_offset |-> index_, start_entries |-> st.start_entries,
     end_entries |-> st.end_entries, hours_display |-> HoursDisplay(st.day_total)]

\* build_rows(entries) as a whole: the loop over the shifts of a day ...
RECURSIVE ShiftLoop(_, _, _)
ShiftLoop(st, index_, shifts_) ==
    IF shifts_ = <<>> \/ st = Raised THEN st
    ELSE ShiftLoop(ShiftStep(st, index_, Head(shifts_)), index_, Tail(shifts_))

\* ... and the loop over the entries
RECURSIVE EntryLoop(_, _, _)
EntryLoop(entries, rows_, total_) ==
    IF entries = <<>> THEN [rows |-> rows_, total_hours |-> FormatHours(total_)]
    ELSE LET st == ShiftLoop(DayStart, Len(rows_), ShiftsOf(Head(entries)))
         IN  IF st = Raised THEN Raised
             ELSE EntryLoop(Tail(entries), Append(rows_, Row(Len(rows_), Head(entries), st)),
                            WeekTotal(total_, st.day_total))

BuildRows(entries) == EntryLoop(entries, <<>>, DecFromInt(0))

-----------------------------------------------------------------------------
(* string.Template.safe_substitute and render *)

\* A template is a sequence of symbols: "$", "{", "}", " " (any character that
\* is not part of an identifier) and names.  A name stands for a run of
\* identifier characters; names that follow each other without a symbol in
\* between make up one longer identifier, as the pattern [_a-z][_a-z0-9]* is
\* greedy.
PayloadKeys ==
    {"client_name", "employee_name", "employee_title_display", "employee_title_values",
     "employee_phone", "employee_email", "week_start", "week_end", "rows", "total_hours",
     "employee_signature", "employee_signature_date", "supervisor_signature",
     "supervisor_signature_date"}

IsName(sym) == sym \notin {"$", "{", "}", " "}

\* The number of names at the head of a template
RECURSIVE NameRun(_)
NameRun(tpl) == IF tpl # <<>> /\ IsName(Head(tpl)) THEN 1 + NameRun(Tail(tpl)) ELSE 0

Literal(syms) == [i \in 1..Len(syms) |-> [kind |-> "char", c |-> syms[i]]]

SubstitutedOrEmpty(ident, placeholder, mapping) ==
    IF Len(ident) = 1 /\ ident[1] \in DOMAIN mapping
    THEN <<[kind |-> "value", key |-> ident[1], value |-> mapping[ident[1]]]>>
    ELSE <<>>

\* The text put for an identifier: the payload's value for a key, the
\* placeholder as it stands for any other identifier
Substituted(ident, placeholder, mapping) ==
    IF Len(ident) = 1 /\ ident[1] \in DOMAIN mapping
    THEN <<[kind |-> "value", key |-> ident[1], value |-> mapping[ident[1]]]>>
    ELSE Literal(placeholder)

\* Template.safe_substitute(payload): "$$" gives "$", "$name" and "${name}"
\* are substituted, and any other "$" stays
RECURSIVE SafeSubstitute(_, _)
SafeSubstitute(tpl, mapping) ==
    IF tpl = <<>> THEN <<>>
    ELSE IF Head(tpl) # "$" THEN Literal(<<Head(tpl)>>) \o SafeSubstitute(Tail(tpl), mapping)
    ELSE LET rest == Tail(tpl)
             n == NameRun(rest)
             m == IF rest # <<>> /\ Head(rest) = "{" THEN NameRun(Tail(rest)) ELSE 0
         IN  IF rest # <<>> /\ Head(rest) = "$"
             THEN Literal(<<"$">>) \o SafeSubstitute(Tail(rest), mapping)
             ELSE IF n > 0
             THEN Substituted(SubSeq(rest, 1, n), SubSeq(tpl, 1, n + 1), mapping)
                  \o SafeSubstitute(SubSeq(rest, n + 1, Len(rest)), mapping)
             ELSE IF m > 0 /\ Len(rest) >= m + 2 /\ rest[m + 2] = "}"
             THEN Substituted(SubSeq(rest, 2, m + 1), SubSeq(tpl, 1, m + 3), mapping)
                  \o SafeSubstitute(SubSeq(rest, m + 3, Len(rest)), mapping)
             ELSE Literal(<<"$">>) \o SafeSubstitute(rest, mapping)

\* A timesheet record is a record of kind "dict" with the values of its keys,
\* None for a key that is absent; "entries" is the list of day entries
\* and "signatures" a record of the four signature values.

\* escape(data.get(key, "")): html.escape raises for a value that is no str
EscapeField(v) ==
    IF v = None THEN Str(<<>>)
    ELSE IF v.kind = "str" THEN Str(Escape(v.text))
    ELSE Raised

Signature(data_, key) == IF data_.signatures = None THEN None ELSE data_.signatures[key]

\* rows, total_hours = build_rows(data.get("entries", []))
RowsOf(data_) == BuildRows(IF data_.entries = None THEN <<>> ELSE data_.entries.items)

\* build_title_payload(data.get("employee_title", ""), data.get("employee_titles"))
TitlesOf(data_) ==
    BuildTitlePayload(IF data_.employee_title = None THEN Str(<<>>) ELSE data_.employee_title,
                      data_.employee_titles)

\* The values render escapes
EscapedFields(data_) ==
    {data_.client_name, data_.employee_name, data_.employee_phone, data_.employee_email,
     data_.week_start, data_.week_end} \cup
    {Signature(data_, key) : key \in {"employee_signature", "employee_signature_date",
                                      "supervisor_signature", "supervisor_signature_date"}}

\* The payload render builds from the rows and the titles, or Raised
PayloadOf(built, titles, data_) ==
    IF \E v \in EscapedFields(data_) : EscapeField(v) = Raised THEN Raised
    ELSE [kind |-> "dict", items |-> [k \in PayloadKeys |->
            CASE k = "client_name" -> EscapeField(data_.client_name)
              [] k = "employee_name" -> EscapeField(data_.employee_name)
              [] k = "employee_title_display" -> Str(titles.display)
              [] k = "employee_title_values" -> Str(Escape(titles.values))
              [] k = "employee_phone" -> EscapeField(data_.employee_phone)
              [] k = "employee_email" -> EscapeField(data_.employee_email)
              [] k = "week_start" -> EscapeField(data_.week_start)
              [] k = "week_end" -> EscapeField(data_.week_end)
              [] k = "rows" -> [kind |-> "rows", rows |-> built.rows]
              [] k = "total_hours" -> Str(built.total_hours)
              [] k = "employee_signature" ->
                    EscapeField(Signature(data_, "employee_signature"))
              [] k = "employee_signature_date" ->
                    EscapeField(Signature(data_, "employee_signature_date"))
              [] k = "supervisor_signature" ->
                    EscapeField(Signature(data_, "supervisor_signature"))
              [] k = "supervisor_signature_date" ->
                    EscapeField(Signature(data_, "supervisor_signature_date"))]]

-----------------------------------------------------------------------------
(* The texts the calls are made with *)

\* "HH:MM"
TimeText(h, m) ==
    <<DigitChar(h \div 10), DigitChar(h % 10), ":", DigitChar(m \div 10), DigitChar(m % 10)>>

SampleMinutes == {0, 1, 7, 30, 59}

CanonicalTimes == {TimeText(h, m) : h \in 0..23, m \in SampleMinutes}

\* texts that are not canonical times
OtherTimes ==
    { <<>>,
      <<"9">>,
      <<"0", "9", ":", "0", "0", ":", "0", "0">>,
      <<"a", "b", ":", "c", "d">>,
      <<"0", "9", ":">>,
      <<":", "3", "0">>,
      <<"0", "9", ":", "x", "0">>,
      <<"2", "5", ":", "0", "0">>,
      <<"2", "4", ":", "0", "0">>,
      <<"4", "8", ":", "0", "0">>,
      <<"0", "9", ":", "6", "0">>,
      <<"-", "1", ":", "0", "0">>,
      <<"0", "9", ":", "-", "5">>,
      <<"9", ":", "0", "0">> }

SpanTexts == CanonicalTimes \cup OtherTimes

\* The sequences over S of length at most n
RECURSIVE SeqsUpTo(_, _)
SeqsUpTo(S, n) ==
    IF n = 0 THEN {<<>>}
    ELSE LET shorter == SeqsUpTo(S, n - 1)
         IN  shorter \cup {Append(q, x) : q \in {r \in shorter : Len(r) = n - 1}, x \in S}

-----------------------------------------------------------------------------
(* The parts of the state a specification leaves alone *)

IdleSpan == raw_start = <<>> /\ raw_end = <<>> /\ span_pc = "idle" /\ span_ret = None

IdleDisp == disp_value = <<>> /\ disp_pc = "idle" /\ disp_ret = <<>>

IdleTitle == single = None /\ multiple = None /\ title_pc = "idle" /\ title_ret = None

IdleRows ==
    /\ rows_pc = "idle" /\ index = 0 /\ entry = None /\ shifts = <<>> /\ shift_index = 0
    /\ start_entries = <<>> /\ end_entries = <<>> /\ day_total = DecFromInt(0)
    /\ total = DecFromInt(0) /\ rows = <<>> /\ rows_ret = None
    /\ hours_values = <<>> /\ days_done = <<>> /\ shifts_read = 0

IdleRender ==
    /\ template = <<>> /\ data = None /\ render_pc = "idle" /\ render_rows = None
    /\ payload = None /\ render_ret = None

IdleMain ==
    /\ main_pc = "idle" /\ data_file = None /\ template_file = None /\ output_file = None
    /\ main_data = None /\ main_html = None /\ output_before = None /\ output_opened = FALSE

-----------------------------------------------------------------------------
(* hours_from_span, called once on a pair of texts *)

InitSpan ==
    /\ IdleDisp /\ IdleTitle /\ IdleRows /\ IdleRender /\ IdleMain
    /\ raw_start \in SpanTexts
    /\ raw_end \in SpanTexts
    /\ span_pc = "call"
    /\ span_ret = None

HoursFromSpanCall ==
    /\ span_pc = "call"
    /\ span_ret' = HoursFromSpan(raw_start, raw_end)
    /\ span_pc' = IF span_ret' = Raised THEN "raised" ELSE "done"
    /\ UNCHANGED <<raw_start, raw_end, dispVars, titleVars, rowsVars,
                   renderVars, mainVars>>

NextSpan == HoursFromSpanCall

SpecSpan == InitSpan /\ [][NextSpan]_vars

\* A canonical time: two digits, a colon, two digits, 00:00 to 23:59
IsCanonical(t) ==
    /\ Len(t) = 5
    /\ t[3] = ":"
    /\ \A i \in {1, 2, 4, 5} : IsDigit(t[i])
    /\ DigitValue(t[1]) * 10 + DigitValue(t[2]) <= 23
    /\ DigitValue(t[4]) * 10 + DigitValue(t[5]) <= 59

\* The minute of the day a canonical time names
ClockMinutes(t) ==
    (DigitValue(t[1]) * 10 + DigitValue(t[2])) * 60 + DigitValue(t[4]) * 10 + DigitValue(t[5])

\* The minutes from start to end, the end taken on the next day when it is
\* before the start
SpanMinutes(start, end) ==
    IF ClockMinutes(end) >= ClockMinutes(start)
    THEN ClockMinutes(end) - ClockMinutes(start)
    ELSE ClockMinutes(end) + 1440 - ClockMinutes(start)

\* |60 * x - minutes|, in units of the last digit of x (x.exp <= 0)
SixtyFoldError(x, minutes) ==
    LET l == MulDigits(x.coef, 60)
        r == StripZeros(NatDigits(minutes) \o Zeros(0 - x.exp))
    IN  IF CmpDigits(l, r) >= 0 THEN SubDigits(l, r) ELSE SubDigits(r, l)

SpanCanonicalDone ==
    span_pc # "call" /\ IsCanonical(raw_start) /\ IsCanonical(raw_end)

\* C1 as stated: for canonical start and end, hours_from_span times 60 equals
\* the minutes from start to end (end - start, or end + 1440 - start when the
\* end is before the start), so it is never negative and start = end gives 0.
C1_SpanTimesSixtyIsMinutes ==
    SpanCanonicalDone =>
        /\ span_pc = "done"
        /\ span_ret.sign = 0
        /\ span_ret.exp <= 0
        /\ IsZeroDigits(SixtyFoldError(span_ret, SpanMinutes(raw_start, raw_end)))

\* C1 amended: for canonical start and end, hours_from_span is the quotient of
\* the minutes from start to end by 60 as a Decimal: exact when the minutes
\* are a multiple of 3, otherwise rounded to 28 significant digits (60 times
\* the result is then within 30 units of its last digit of the minutes).  It
\* is never negative, and start = end gives 0.
C1_SpanIsRoundedQuotient ==
    SpanCanonicalDone =>
        LET m == SpanMinutes(raw_start, raw_end)
            err == SixtyFoldError(span_ret, m)
        IN  /\ span_pc = "done"
            /\ span_ret.sign = 0
            /\ span_ret.exp <= 0
            /\ Len(span_ret.coef) <= Precision
            /\ CmpDigits(err, <<3, 0>>) <= 0
            /\ m % 3 = 0 => IsZeroDigits(err)
            /\ m % 3 # 0 => Len(span_ret.coef) = Precision
            /\ raw_start = raw_end => ~DecNonZero(span_ret)

\* An overnight span whose minutes are not a multiple of 3 has been computed.
C1_Witness ==
    /\ SpanCanonicalDone
    /\ span_pc = "done"
    /\ ClockMinutes(raw_end) < ClockMinutes(raw_start)
    /\ SpanMinutes(raw_start, raw_end) % 3 # 0

\* An integer literal as int() takes it: digits, after at most one sign, with
\* spaces allowed around
IsIntLiteral(t) ==
    \E i \in 1..Len(t), j \in 1..Len(t) :
        /\ i <= j
        /\ \A k \in i..j : IsDigit(t[k])
        /\ \A k \in (j + 1)..Len(t) : t[k] = " "
        /\ \/ \A k \in 1..(i - 1) : t[k] = " "
           \/ /\ t[i - 1] \in {"+", "-"}
              /\ \A k \in 1..(i - 2) : t[k] = " "

Colons(t) == {i \in 1..Len(t) : t[i] = ":"}

\* Exactly two colon-separated parts, each an integer literal
IsIntPair(t) ==
    /\ Cardinality(Colons(t)) = 1
    /\ LET c == CHOOSE i \in Colons(t) : TRUE
       IN  IsIntLiteral(SubSeq(t, 1, c - 1)) /\ IsIntLiteral(SubSeq(t, c + 1, Len(t)))

\* A well-formed HH:MM time: two parts of one or two digits, the hour in
\* 0..23 and the minute in 0..59
IsWellFormedTime(t) ==
    /\ Cardinality(Colons(t)) = 1
    /\ LET c == CHOOSE i \in Colons(t) : TRUE
           h == SubSeq(t, 1, c - 1)
           m == SubSeq(t, c + 1, Len(t))
       IN  /\ AllDigits(h) /\ Len(h) <= 2 /\ DigitsValue(h) <= 23
           /\ AllDigits(m) /\ Len(m) <= 2 /\ DigitsValue(m) <= 59

\* C9 as stated: hours_from_span returns exactly zero, and never raises, when
\* start or end is empty or is not a well-formed HH:MM time (wrong number of
\* parts, non-numeric part, hour outside 0..23, minute outside 0..59, or a
\* negative component).
C9_ZeroUnlessWellFormed ==
    span_pc # "call" /\ (~IsWellFormedTime(raw_start) \/ ~IsWellFormedTime(raw_end)) =>
        span_pc = "done" /\ span_ret = DecFromInt(0)

\* C9 amended: hours_from_span never raises, and it returns exactly zero when
\* start or end is empty, does not have exactly two colon-separated parts, or
\* has a part that is not an integer literal.  (A component out of range or
\* negative is not rejected.)
C9_ZeroUnlessIntPair ==
    span_pc # "call" =>
        /\ span_pc = "done"
        /\ ~IsIntPair(raw_start) \/ ~IsIntPair(raw_end) => span_ret = DecFromInt(0)

\* A call with a non-numeric start and a canonical end has returned.
C9_Witness ==
    /\ span_pc = "done"
    /\ raw_start = <<"a", "b", ":", "c", "d">>
    /\ IsCanonical(raw_end)

-----------------------------------------------------------------------------
(* to_display_time, called once on a text *)

AllCanonicalTimes == {TimeText(h, m) : h \in 0..23, m \in 0..59}

InitDisplay ==
    /\ IdleSpan /\ IdleTitle /\ IdleRows /\ IdleRender /\ IdleMain
    /\ disp_value \in AllCanonicalTimes \cup OtherTimes
    /\ disp_pc = "call"
    /\ disp_ret = <<>>

ToDisplayTimeCall ==
    /\ disp_pc = "call"
    /\ disp_ret' = ToDisplayTime(disp_value)
    /\ disp_pc' = "done"
    /\ UNCHANGED <<disp_value, spanVars, titleVars, rowsVars,
                   renderVars, mainVars>>

NextDisplay == ToDisplayTimeCall

SpecDisplay == InitDisplay /\ [][NextDisplay]_vars

\* The hour of the 12-hour clock and the half of the day of a minute of the day
ClockHour12(minutes) ==
    LET h == minutes \div 60
    IN  IF h = 0 THEN 12 ELSE IF h > 12 THEN h - 12 ELSE h

ClockHalf(minutes) == IF minutes < 720 THEN <<"A", "M">> ELSE <<"P", "M">>

MinuteText(minutes) == <<DigitChar((minutes % 60) \div 10), DigitChar((minutes % 60) % 10)>>

\* C10 as stated: for a canonical time, to_display_time returns the same clock
\* time on the 12-hour clock with AM or PM and no leading zero on the hour
\* (00:xx is hour 12 AM, 12:xx is hour 12 PM, 09:05 is 9:05AM); for the empty
\* text it returns "--".
C10_DisplayWithoutLeadingZero ==
    disp_pc = "done" =>
        /\ disp_value = <<>> => disp_ret = <<"-", "-">>
        /\ IsCanonical(disp_value) =>
              LET m == ClockMinutes(disp_value)
                  h == ClockHour12(m)
              IN  disp_ret = (IF h < 10 THEN <<DigitChar(h)>>
                                        ELSE <<DigitChar(h \div 10), DigitChar(h % 10)>>)
                             \o <<":">> \o MinuteText(m) \o ClockHalf(m)

\* C10 amended: for a canonical time, to_display_time returns the same clock
\* time on the 12-hour clock with AM or PM and the hour as two digits, zero
\* padded (00:xx is 12:xxAM, 12:xx is 12:xxPM, 09:05 is 09:05AM); for the
\* empty text it returns "--".
C10_DisplayZeroPadded ==
    disp_pc = "done" =>
        /\ disp_value = <<>> => disp_ret = <<"-", "-">>
        /\ IsCanonical(disp_value) =>
              LET m == ClockMinutes(disp_value)
                  h == ClockHour12(m)
              IN  /\ Len(disp_ret) = 7
                  /\ SubSeq(disp_ret, 1, 2) = <<DigitChar(h \div 10), DigitChar(h % 10)>>
                  /\ disp_ret[3] = ":"
                  /\ SubSeq(disp_ret, 4, 5) = MinuteText(m)
                  /\ SubSeq(disp_ret, 6, 7) = ClockHalf(m)

\* 09:05 has been converted.
C10_Witness ==
    /\ disp_pc = "done"
    /\ disp_value = <<"0", "9", ":", "0", "5">>
    /\ disp_ret = <<"0", "9", ":", "0", "5", "A", "M">>

-----------------------------------------------------------------------------
(* build_title_payload, called once *)

\* The longest list of titles passed
MaxTitles == 3

TitleTexts ==
    { <<>>,
      <<" ">>,
      <<"R", "N">>,
      <<" ", "R", "N", " ">>,
      <<"L">>,
      <<"A", "&", "B">> }

TitleValues == {Str(t) : t \in TitleTexts}

InitTitle ==
    /\ IdleSpan /\ IdleDisp /\ IdleRows /\ IdleRender /\ IdleMain
    /\ single \in {None} \cup TitleValues \cup {List(q) : q \in SeqsUpTo(TitleValues, 2)}
    /\ multiple \in {None} \cup TitleValues \cup {List(q) : q \in SeqsUpTo(TitleValues, MaxTitles)}
    /\ title_pc = "call"
    /\ title_ret = None

BuildTitlePayloadCall ==
    /\ title_pc = "call"
    /\ title_ret' = BuildTitlePayload(single, multiple)
    /\ title_pc' = "done"
    /\ UNCHANGED <<single, multiple, spanVars, dispVars, rowsVars,
                   renderVars, mainVars>>

NextTitle == BuildTitlePayloadCall

SpecTitle == InitTitle /\ [][NextTitle]_vars

\* The titles an argument offers: none when it is absent, its text, or the
\* texts of its entries
Offered(v) ==
    IF v.kind = "str" THEN <<v.text>>
    ELSE IF v.kind = "list" THEN [i \in 1..Len(v.items) |-> v.items[i].text]
    ELSE <<>>

HasTitle(src) == \E k \in 1..Len(src) : Strip(src[k]) # <<>>

FirstAt(src, t) == CHOOSE k \in 1..Len(src) :
    Strip(src[k]) = t /\ \A j \in 1..(k - 1) : Strip(src[j]) # t

\* e lists the trimmed non-blank titles of src once each, in the order of
\* their first occurrence
IsConsolidation(e, src) ==
    /\ \A i \in 1..Len(e) : e[i] # <<>> /\ \E k \in 1..Len(src) : Strip(src[k]) = e[i]
    /\ \A i, j \in 1..Len(e) : i # j => e[i] # e[j]
    /\ \A k \in 1..Len(src) : Strip(src[k]) # <<>> => InSeq(Strip(src[k]), e)
    /\ \A i, j \in 1..Len(e) : i < j => FirstAt(src, e[i]) < FirstAt(src, e[j])

TitlePayloadOf(src) ==
    IF ~HasTitle(src) THEN title_ret = [display |-> <<"-", "-">>, values |-> <<>>]
    ELSE LET e == Split(title_ret.values, "|")
         IN  /\ IsConsolidation(e, src)
             /\ title_ret.display =
                    Join([i \in 1..Len(e) |-> Escape(e[i])], <<"<", "b", "r", ">">>)

\* C8 as stated: build_title_payload trims every title and removes blanks and
\* exact duplicates keeping the first occurrence; it uses the list whenever
\* the list has a non-blank entry (the single value is then ignored) and
\* otherwise falls back to the single value; when neither an optional single
\* title nor the list yields a title it returns "--" and an empty raw value.
C8_TitlePayload ==
    title_pc = "done" =>
        IF HasTitle(Offered(multiple)) THEN TitlePayloadOf(Offered(multiple))
        ELSE TitlePayloadOf(Offered(single))

\* The same, for calls whose single title is not None.
C8_TitlePayloadOfGivenSingle == single # None => C8_TitlePayload

-----------------------------------------------------------------------------
(* render, called once on the text of a template and a timesheet record *)

\* The most symbols of a template
MaxTemplateLen == 4

\* The symbols of the templates: the delimiter, the braces, a character that
\* belongs to no identifier, a payload key and a name that is no key
TemplateSymbols == {"$", "{", "}", " ", "other", "rows"}

\* Every template of these symbols, and both placeholders of every payload key
Templates ==
    SeqsUpTo(TemplateSymbols, MaxTemplateLen)
        \cup {<<"$", k>> : k \in PayloadKeys} \cup {<<"$", "{", k, "}">> : k \in PayloadKeys}

\* A record with no key at all
EmptyData ==
    [kind |-> "dict", client_name |-> None, employee_name |-> None, employee_title |-> None,
     employee_titles |-> None, employee_phone |-> None, employee_email |-> None,
     week_start |-> None, week_end |-> None, entries |-> None, signatures |-> None]

\* A record with every key
FullData ==
    [kind |-> "dict", client_name |-> Str(<<"A", "&", "B">>), employee_name |-> Str(<<"J", "o">>),
     employee_title |-> Str(<<"D", "e", "v">>), employee_titles |-> List(<<Str(<<"D", "e", "v">>), Str(<<" ", "O", "p", "s", " ">>)>>),
     employee_phone |-> Str(<<"5", "5", "5">>), employee_email |-> Str(<<"j", "@", "x">>),
     week_start |-> Str(<<"2", "0", "2", "4", "-", "0", "1", "-", "0", "1">>), week_end |-> Str(<<"2", "0", "2", "4", "-", "0", "1", "-", "0", "7">>),
     entries |-> List(<< [day |-> Str(<<"M", "o", "n">>), date |-> Str(<<"2", "0", "2", "4", "-", "0", "1", "-", "0", "1">>),
                     shifts |-> List(<< [start |-> Str(<<"0", "9", ":", "0", "0">>),
                                         end |-> Str(<<"5", ":", "3", "0", " ", "p", "m">>),
                                         hours |-> Str(<<"7", ".", "5">>)] >>)] >>),
     signatures |-> [employee_signature |-> Str(<<"J", "o">>), employee_signature_date |-> Str(<<"2", "0", "2", "4", "-", "0", "1", "-", "0", "7">>),
                     supervisor_signature |-> None, supervisor_signature_date |-> None]]

\* A record whose client name is a number
NumberData == [EmptyData EXCEPT !.client_name = Int_(5)]

DataSamples == {EmptyData, FullData, NumberData}

InitRender ==
    /\ IdleSpan /\ IdleDisp /\ IdleTitle /\ IdleRows /\ IdleMain
    /\ template \in Templates
    /\ data \in DataSamples
    /\ render_pc = "call"
    /\ render_rows = None
    /\ payload = None
    /\ render_ret = None

\* The rows and the total are built.
RenderBuildRows ==
    /\ render_pc = "call"
    /\ IF data.kind # "dict"
       THEN render_rows' = Raised
       ELSE render_rows' = RowsOf(data)
    /\ render_pc' = IF render_rows' = Raised THEN "raised" ELSE "payload"
    /\ UNCHANGED <<template, data, payload, render_ret,
                   spanVars, dispVars, titleVars, rowsVars, mainVars>>

\* The titles and the payload are built.
RenderBuildPayload ==
    /\ render_pc = "payload"
    /\ payload' = PayloadOf(render_rows, TitlesOf(data), data)
    /\ render_pc' = IF payload' = Raised THEN "raised" ELSE "substitute"
    /\ UNCHANGED <<template, data, render_rows, render_ret,
                   spanVars, dispVars, titleVars, rowsVars, mainVars>>

\* The payload is substituted into the template.
RenderSubstitute ==
    /\ render_pc = "substitute"
    /\ render_ret' = Str(SafeSubstitute(template, payload.items))
    /\ render_pc' = "done"
    /\ UNCHANGED <<template, data, render_rows, payload,
                   spanVars, dispVars, titleVars, rowsVars, mainVars>>

NextRender == RenderBuildRows \/ RenderBuildPayload \/ RenderSubstitute

SpecRender == InitRender /\ [][NextRender]_vars

\* The number of "$" that stand right before position i
DollarsBefore(tpl, i) ==
    CHOOSE n \in 0..(i - 1) :
        /\ \A j \in (i - n)..(i - 1) : tpl[j] = "$"
        /\ n = i - 1 \/ tpl[i - n - 1] # "$"

\* Position i holds a delimiter: a "$" that is not the second of a "$$"
IsDelimiter(tpl, i) == tpl[i] = "$" /\ DollarsBefore(tpl, i) % 2 = 0

\* The number of names that stand from position i on
NamesFrom(tpl, i) ==
    CHOOSE n \in 0..(Len(tpl) + 1 - i) :
        /\ \A j \in i..(i + n - 1) : IsName(tpl[j])
        /\ i + n > Len(tpl) \/ ~IsName(tpl[i + n])

\* The last position of the placeholder that starts at position i, 0 when
\* none does: "$name" or "${name}"
PlaceholderEnd(tpl, i) ==
    IF ~IsDelimiter(tpl, i) \/ i = Len(tpl) THEN 0
    ELSE IF IsName(tpl[i + 1]) THEN i + NamesFrom(tpl, i + 1)
    ELSE IF tpl[i + 1] = "{" /\ i + 2 <= Len(tpl)
    THEN LET e == i + 2 + NamesFrom(tpl, i + 2)
         IN  IF e > i + 2 /\ e <= Len(tpl) /\ tpl[e] = "}" THEN e ELSE 0
    ELSE 0

\* The name of the placeholder that starts at position i
PlaceholderName(tpl, i) ==
    IF IsName(tpl[i + 1]) THEN SubSeq(tpl, i + 1, PlaceholderEnd(tpl, i))
    ELSE SubSeq(tpl, i + 2, PlaceholderEnd(tpl, i) - 1)

IsPlaceholder(tpl, i) == PlaceholderEnd(tpl, i) > 0

IsKeyPlaceholder(tpl, i) ==
    /\ IsPlaceholder(tpl, i)
    /\ Len(PlaceholderName(tpl, i)) = 1
    /\ PlaceholderName(tpl, i)[1] \in PayloadKeys

\* What position i of the template gives to the output
Contribution(tpl, i, values) ==
    IF IsKeyPlaceholder(tpl, i)
    THEN LET key == PlaceholderName(tpl, i)[1]
         IN  <<[kind |-> "value", key |-> key, value |-> values[key]]>>
    ELSE IF \E k \in 1..(i - 1) : IsKeyPlaceholder(tpl, k) /\ i <= PlaceholderEnd(tpl, k)
    THEN <<>>
    ELSE IF tpl[i] = "$" /\ ~IsDelimiter(tpl, i) THEN <<>>
    ELSE <<[kind |-> "char", c |-> tpl[i]]>>

RECURSIVE Contributions(_, _, _)
Contributions(tpl, i, values) ==
    IF i > Len(tpl) THEN <<>>
    ELSE Contribution(tpl, i, values) \o Contributions(tpl, i + 1, values)

\* Every text value of the record is a str
IsWellTyped(data_) ==
    \A v \in {data_.client_name, data_.employee_name, data_.employee_phone,
              data_.employee_email, data_.week_start, data_.week_end} :
        v = None \/ v.kind = "str"

\* C6: in render, every placeholder of the template whose name is not a key
\* of the payload appears in the output literally and unmodified, and it never
\* makes render fail (render fails for no template when the record is well
\* typed); every placeholder whose name is one of the 14 payload keys is
\* replaced by its payload value; "$$" gives "$" and every other symbol of the
\* template is copied.
C6_PlaceholdersSubstituted ==
    /\ Cardinality(PayloadKeys) = 14
    /\ render_pc = "raised" => ~IsWellTyped(data)
    /\ render_pc = "done" =>
          /\ DOMAIN payload.items = PayloadKeys
          /\ render_ret = Str(Contributions(template, 1, payload.items))

\* render has returned for a template with a placeholder that is a key and
\* one that is not
C6_Witness ==
    /\ render_pc = "done"
    /\ \E i, j \in 1..Len(template) :
          /\ IsKeyPlaceholder(template, i)
          /\ IsPlaceholder(template, j) /\ ~IsKeyPlaceholder(template, j)
          /\ i < j

-----------------------------------------------------------------------------
(* main, run once on the files at the three paths *)

\* A path holds no file, a directory, or a file with its content
Missing == [kind |-> "missing"]
Directory == [kind |-> "directory"]
File(content) == [kind |-> "file", content |-> content]

\* The content of a data file: a JSON document, given by the value it
\* parses to, or text that is no JSON
Json(value) == [kind |-> "json", value |-> value]
NotJson == [kind |-> "text"]

\* load_timesheet: path.open raises for a path that holds no file, json.load
\* for text that is no JSON
LoadTimesheet(file) ==
    IF file.kind # "file" \/ file.content.kind # "json" THEN Raised
    ELSE file.content.value

\* A lone surrogate, as json.load gives for "\ud800": a character str.encode
\* refuses
Surrogate == "U+D800"

\* The texts of a payload value
TextsOf(value) ==
    IF value.kind = "str" THEN {value.text}
    ELSE UNION {{value.rows[i].day, value.rows[i].date, value.rows[i].hours_display}
                \cup {e.raw_value : e \in {value.rows[i].start_entries[j] :
                                            j \in 1..Len(value.rows[i].start_entries)}}
                \cup {e.raw_value : e \in {value.rows[i].end_entries[j] :
                                            j \in 1..Len(value.rows[i].end_entries)}}
                : i \in 1..Len(value.rows)}

\* html.encode("utf-8") succeeds
IsEncodable(html) ==
    \A i \in 1..Len(html.text) :
        IF html.text[i].kind = "char" THEN html.text[i].c # Surrogate
        ELSE \A t \in TextsOf(html.text[i].value) : ~InSeq(Surrogate, t)

\* A record whose client name holds a lone surrogate
SurrogateData == [EmptyData EXCEPT !.client_name = Str(<<"A", Surrogate>>)]

DataFiles ==
    {Missing, File(NotJson), File(Json(List(<<>>)))}
        \cup {File(Json(d)) : d \in DataSamples \cup {SurrogateData}}

TemplateFiles ==
    {Missing, File(<<>>), File(<<"$", "other">>),
     File(<<"$", "client_name", "$", "rows">>)}

\* What the output path holds before the run
OldOutput == File(Str(<<[kind |-> "char", c |-> "old"]>>))

OutputFiles == {Missing, Directory, OldOutput}

InitMain ==
    /\ IdleSpan /\ IdleDisp /\ IdleTitle /\ IdleRows /\ IdleRender
    /\ main_pc = "load"
    /\ data_file \in DataFiles
    /\ template_file \in TemplateFiles
    /\ output_file \in OutputFiles
    /\ main_data = None
    /\ main_html = None
    /\ output_before = output_file
    /\ output_opened = FALSE

\* data = load_timesheet(args.data)
MainLoad ==
    /\ main_pc = "load"
    /\ LET loaded == LoadTimesheet(data_file)
       IN  IF loaded = Raised
           THEN main_pc' = "failed" /\ UNCHANGED main_data
           ELSE main_pc' = "render" /\ main_data' = loaded
    /\ UNCHANGED <<data_file, template_file, output_file, main_html, output_before,
                   output_opened, spanVars, dispVars, titleVars, rowsVars, renderVars>>

\* html = render(args.template, data) is called: read_text raises for a path
\* that holds no file
MainCallRender ==
    /\ main_pc = "render"
    /\ IF template_file.kind # "file"
       THEN main_pc' = "failed" /\ UNCHANGED <<template, data, render_pc>>
       ELSE /\ main_pc' = "rendering"
            /\ template' = template_file.content
            /\ data' = main_data
            /\ render_pc' = "call"
    /\ UNCHANGED <<data_file, template_file, output_file, main_data, main_html, output_before,
                   output_opened, render_rows, payload, render_ret,
                   spanVars, dispVars, titleVars, rowsVars>>

\* render has returned or raised
MainRenderReturn ==
    /\ main_pc = "rendering"
    /\ render_pc \in {"done", "raised"}
    /\ IF render_pc = "raised"
       THEN main_pc' = "failed" /\ UNCHANGED main_html
       ELSE main_pc' = "open" /\ main_html' = render_ret
    /\ UNCHANGED <<data_file, template_file, output_file, main_data, output_before,
                   output_opened, spanVars, dispVars, titleVars, rowsVars, renderVars>>

\* args.output.write_text(html, encoding="utf-8") opens the path for writing:
\* the file is created or truncated; a directory cannot be opened
MainOpen ==
    /\ main_pc = "open"
    /\ IF output_file.kind = "directory"
       THEN main_pc' = "failed" /\ UNCHANGED <<output_file, output_opened>>
       ELSE /\ main_pc' = "write"
            /\ output_file' = File(Str(<<>>))
            /\ output_opened' = TRUE
    /\ UNCHANGED <<data_file, template_file, main_data, main_html, output_before,
                   spanVars, dispVars, titleVars, rowsVars, renderVars>>

\* ... and writes html, encoded, to the file opened
MainWrite ==
    /\ main_pc = "write"
    /\ IF IsEncodable(main_html)
       THEN main_pc' = "done" /\ output_file' = File(main_html)
       ELSE main_pc' = "failed" /\ UNCHANGED output_file
    /\ UNCHANGED <<data_file, template_file, main_data, main_html, output_before,
                   output_opened, spanVars, dispVars, titleVars, rowsVars, renderVars>>

NextMain ==
    \/ MainLoad
    \/ MainCallRender
    \/ RenderBuildRows
    \/ RenderBuildPayload
    \/ RenderSubstitute
    \/ MainRenderReturn
    \/ MainOpen
    \/ MainWrite

SpecMain == InitMain /\ [][NextMain]_vars

\* C5: in main, the output file is written only after loading the JSON and
\* rendering the template have both completed successfully: in every run,
\* either the full rendered document is written, or the process fails with
\* the output path never having been opened or modified.
C5_AllOrNothing ==
    /\ output_opened => main_data # None /\ main_html # None
    /\ main_pc = "done" => output_file = File(main_html)
    /\ main_pc = "failed" => ~output_opened /\ output_file = output_before

\* The part of C5 that holds: the output path is opened only after loading
\* and rendering have completed, a run that fails in either leaves the path as
\* it was, and a run that completes has written the full document.
C5_OutputOnlyAfterRender ==
    /\ output_opened \/ output_file # output_before =>
          main_data # None /\ main_html # None /\ main_pc \in {"write", "done", "failed"}
    /\ main_pc = "done" => output_file = File(main_html)
    /\ main_pc = "failed" /\ main_html = None => ~output_opened /\ output_file = output_before

-----------------------------------------------------------------------------
(* build_rows, run on the day entries of a week *)

\* The most day entries, and the most shifts in all of them
MaxDays == 2
MaxShifts == 2

ShiftSamples ==
    { [start |-> None, end |-> None, hours |-> None],
      [start |-> Str(<<"0", "9", ":", "0", "0">>), end |-> Str(<<"1", "7", ":", "3", "0">>), hours |-> None],
      [start |-> Str(<<"1", "0", ":", "0", "0", " ", "p", "m">>), end |-> Str(<<"6", ":", "0", "1", "A", "M">>), hours |-> None],
      [start |-> Str(<<"0", "9", ":", "0", "0">>), end |-> Str(<<"1", "7", ":", "0", "0">>), hours |-> Str(<<"a", "b", "c">>)],
      [start |-> Str(<<"0", "9", ":", "0", "0">>), end |-> Str(<<"1", "7", ":", "0", "0">>), hours |-> Str(<<"0">>)],
      [start |-> Str(<<"0", "9", ":", "0", "0">>), end |-> Str(<<"1", "2", ":", "0", "0">>), hours |-> Str(<<"-", "1", ".", "5">>)],
      [start |-> Str(<<"b", "a", "d">>), end |-> Str(<<"1", "7", ":", "0", "0">>), hours |-> None],
      [start |-> Str(<<"1", "3", ":", "0", "0">>), end |-> Str(<<"2", "5", ":", "0", "0">>), hours |-> Str(<<"7", ".", "2", "5">>)] }

\* The day entries with at most n shifts: "shifts" absent, empty or a list
DayEntries(n) ==
    {[day |-> Str(<<"M", "&">>), date |-> None, shifts |-> sh] :
        sh \in {None} \cup {List(q) : q \in SeqsUpTo(ShiftSamples, n)}}

InitRows ==
    /\ IdleSpan /\ IdleDisp /\ IdleTitle /\ IdleRender /\ IdleMain
    /\ rows_pc = "for_entry" /\ index = 0 /\ entry = None /\ shifts = <<>> /\ shift_index = 0
    /\ start_entries = <<>> /\ end_entries = <<>> /\ day_total = DecFromInt(0)
    /\ total = DecFromInt(0) /\ rows = <<>> /\ rows_ret = None
    /\ hours_values = <<>> /\ days_done = <<>> /\ shifts_read = 0

\* The loop over the entries takes the next one.
NextEntry ==
    /\ rows_pc = "for_entry"
    /\ Len(rows) < MaxDays
    /\ \E e \in DayEntries(MaxShifts - shifts_read) :
          /\ entry' = e
          /\ shifts' = ShiftsOf(e)
          /\ shifts_read' = shifts_read + Len(ShiftsOrNothing(e))
    /\ index' = Len(rows)
    /\ start_entries' = DayStart.start_entries
    /\ end_entries' = DayStart.end_entries
    /\ day_total' = DayStart.day_total
    /\ shift_index' = 0
    /\ hours_values' = <<>>
    /\ rows_pc' = "for_shift"
    /\ UNCHANGED <<total, rows, rows_ret, days_done, spanVars, dispVars, titleVars,
                   renderVars, mainVars>>

\* The loop over the shifts processes the next one.
ProcessShift ==
    /\ rows_pc = "for_shift"
    /\ shift_index < Len(shifts)
    /\ LET st == ShiftStep([day_total |-> day_total, start_entries |-> start_entries,
                            end_entries |-> end_entries], index, shifts[shift_index + 1])
       IN  IF st = Raised
           THEN /\ rows_pc' = "raised"
                /\ UNCHANGED <<day_total, start_entries, end_entries, hours_values, shift_index>>
           ELSE /\ day_total' = st.day_total
                /\ start_entries' = st.start_entries
                /\ end_entries' = st.end_entries
                /\ hours_values' = Append(hours_values, st.hours_value)
                /\ shift_index' = shift_index + 1
                /\ rows_pc' = "for_shift"
    /\ UNCHANGED <<index, entry, shifts, total, rows, rows_ret, days_done, shifts_read,
                   spanVars, dispVars, titleVars,
                   renderVars, mainVars>>

\* The shifts of the day are done: its total is added and its row appended.
FinishDay ==
    /\ rows_pc = "for_shift"
    /\ shift_index = Len(shifts)
    /\ total' = WeekTotal(total, day_total)
    /\ rows' = Append(rows, Row(index, entry, [day_total |-> day_total,
                           start_entries |-> start_entries, end_entries |-> end_entries]))
    /\ days_done' = Append(days_done, [entry |-> entry, hours_values |-> hours_values,
                           day_total |-> day_total, total_before |-> total,
                           total_after |-> total'])
    /\ rows_pc' = "for_entry"
    /\ UNCHANGED <<index, entry, shifts, shift_index, start_entries, end_entries, day_total,
                   rows_ret, hours_values, shifts_read, spanVars, dispVars, titleVars,
                   renderVars, mainVars>>

\* The entries are done: the rows and the formatted total are returned.
ReturnRows ==
    /\ rows_pc = "for_entry"
    /\ rows_ret' = [rows |-> rows, total_hours |-> FormatHours(total)]
    /\ rows_pc' = "done"
    /\ UNCHANGED <<index, entry, shifts, shift_index, start_entries, end_entries, day_total,
                   total, rows, hours_values, days_done, shifts_read,
                   spanVars, dispVars, titleVars,
                   renderVars, mainVars>>

NextRows == NextEntry \/ ProcessShift \/ FinishDay \/ ReturnRows

SpecRows == InitRows /\ [][NextRows]_vars

\* The sum of a sequence of Decimals, added from Decimal("0") in order
RECURSIVE SumDec(_)
SumDec(q) ==
    IF q = <<>> THEN DecFromInt(0)
    ELSE DecAdd(SumDec(SubSeq(q, 1, Len(q) - 1)), q[Len(q)])

\* The "hours" texts of the samples that are decimals, with their values,
\* and the texts of the samples that are no decimal and no time
DecimalTexts == {<<"0">>, <<"-", "1", ".", "5">>, <<"7", ".", "2", "5">>}

DecimalTextValue(text) ==
    IF text = <<"0">> THEN Dec(0, <<0>>, 0)
    ELSE IF text = <<"-", "1", ".", "5">> THEN Dec(1, <<1, 5>>, -1)
    ELSE Dec(0, <<7, 2, 5>>, -2)

UnparseableHours == {<<"a", "b", "c">>}

UnparseableTimes == {<<"b", "a", "d">>, <<"2", "5", ":", "0", "0">>}

HasDecimalHours(shift) == shift.hours # None /\ shift.hours.text \in DecimalTexts

\* The span of the i-th shift processed for the day, from its normalized times
SpanOfProcessed(i) == HoursFromSpan(start_entries[i].raw_value, end_entries[i].raw_value)

\* The shifts of the day at hand that have been processed
Processed == IF rows_pc \in {"for_shift", "for_entry", "done"} THEN 1..Len(hours_values) ELSE {}

\* C2: a shift whose "hours" is present and a decimal (0 and negative values
\* included) adds exactly that value to the day's total, whatever its span;
\* the other shifts of the day add their computed span.
C2_ExplicitHoursOverride ==
    /\ \A i \in Processed :
          /\ HasDecimalHours(shifts[i]) =>
                hours_values[i] = DecimalTextValue(shifts[i].hours.text)
          /\ shifts[i].hours = None => hours_values[i] = SpanOfProcessed(i)
    /\ Len(hours_values) > 0 =>
          day_total = DecAdd(SumDec(SubSeq(hours_values, 1, Len(hours_values) - 1)),
                             hours_values[Len(hours_values)])

\* A shift 09:00 to 17:00 with "hours" 0 has added 0, and the shift after it,
\* without "hours", its span of 8.5.
C2_Witness ==
    /\ rows_pc = "for_shift"
    /\ Len(hours_values) = 2
    /\ shifts[1].hours = Str(<<"0">>)
    /\ start_entries[1].raw_value = <<"0", "9", ":", "0", "0">>
    /\ end_entries[1].raw_value = <<"1", "7", ":", "0", "0">>
    /\ shifts[2].hours = None
    /\ day_total = Dec(0, <<8, 5>>, -1)

DayTotals == [d \in 1..Len(days_done) |-> days_done[d].day_total]

\* C3: the week total is the sum of the day totals and each day total the sum
\* of the durations of the day's shifts, at every step of the loops; the total
\* returned is that sum, formatted.
C3_TotalsAreSums ==
    /\ total = SumDec(DayTotals)
    /\ day_total = SumDec(hours_values)
    /\ \A d \in 1..Len(days_done) :
          /\ days_done[d].day_total = SumDec(days_done[d].hours_values)
          /\ days_done[d].total_after = SumDec(SubSeq(DayTotals, 1, d))
          /\ Len(days_done[d].hours_values) = Len(rows[d].start_entries)
    /\ Len(rows) = Len(days_done)
    /\ rows_pc = "done" =>
          /\ rows_ret.total_hours = FormatHours(SumDec(DayTotals))
          /\ rows_ret.rows = rows

\* Two days with hours have been processed and the rows returned.
C3_Witness ==
    /\ rows_pc = "done"
    /\ Len(days_done) = 2
    /\ DecNonZero(days_done[1].day_total)
    /\ DecNonZero(days_done[2].day_total)
    /\ rows_ret.total_hours # FormatHours(days_done[2].day_total)

\* C4: a day entry whose "shifts" is absent or empty gets exactly one start
\* and one end fragment, of shift index 0 and with empty raw values, "0.00"
\* in its hours cell, and adds zero to the week total.
C4_EmptyDayRendersOneEmptyShift ==
    \A d \in 1..Len(days_done) :
        days_done[d].entry.shifts \in {None, List(<<>>)} =>
            /\ Len(rows[d].start_entries) = 1
            /\ Len(rows[d].end_entries) = 1
            /\ rows[d].start_entries[1].shift_index = 0
            /\ rows[d].end_entries[1].shift_index = 0
            /\ rows[d].start_entries[1].raw_value = <<>>
            /\ rows[d].end_entries[1].raw_value = <<>>
            /\ rows[d].hours_display = <<"0", ".", "0", "0">>
            /\ ~DecNonZero(days_done[d].day_total)
            /\ DecEq(days_done[d].total_after, days_done[d].total_before)

\* A day with an empty list of shifts has been finished after a day with hours.
C4_Witness ==
    /\ Len(days_done) = 2
    /\ days_done[2].entry.shifts = List(<<>>)
    /\ DecNonZero(days_done[1].day_total)
    /\ rows[2].hours_display = <<"0", ".", "0", "0">>

IsUnparseableTime(v) == v # None /\ v.text \in UnparseableTimes

IsUnparseableHours(v) == v # None /\ v.text \in UnparseableHours

=============================================================================
